---------------------------- MODULE Spec2Model ----------------------------
(***************************************************************************)
(* Model of the property-description / story-caption tool.                 *)
(*                                                                         *)
(* A JavaScript string is modelled as a sequence of one-character strings  *)
(* (one element per UTF-16 code unit; a non-ASCII unit is written          *)
(* "U+XXXX").  The two React components of page.tsx are modelled by their  *)
(* useState fields, the outstanding server call and the last value handed  *)
(* to the clipboard; the two genkit flows are operators applied to the     *)
(* output of the prompt, which is the model's nondeterministic input.      *)
(* Only the form of the selected tab is mounted: leaving a tab discards    *)
(* the state of its form, while a call that form started stays outstanding.*)
(***************************************************************************)
EXTENDS Integers, Sequences, FiniteSets, TLC

VARIABLES
    activeTab,          \* HomePage: the selected tab, whose form is mounted
    storyIsLoading,     \* StoryGeneratorForm: isLoading
    generatedStory,     \* StoryGeneratorForm: generatedStory
    storyPending,       \* a generateStoryText call is outstanding
    storyOutput,        \* prompt output seen by the last settled story call
    storyReturn,        \* what generateStoryTextFlow did with it
    clipboard,          \* last handleCopyToClipboard: its caption and its text
    storyCalls,         \* generateStoryText calls issued by the current submission
    storyCleared,       \* confirmClearForm ran since the last story submission
    storyOrphans,       \* outstanding story calls started by an unmounted form
    storyReplaced,      \* the outstanding story call was submitted with a story on display
    flowRevision,       \* which revision of format-property-features.ts is built
    schemaRevision,     \* which revision of propertyFormSchema is built
    descIsLoading,      \* PropertyDescriptionForm: isLoading
    generatedDescription, \* PropertyDescriptionForm: generatedDescription
    descPending,        \* a formatPropertyFeatures call is outstanding
    descData,           \* the form data onSubmit was called with
    featOutput,         \* prompt output seen by the last settled features call
    featReturn,         \* what formatPropertyFeaturesFlow did with it
    descCalls,          \* formatPropertyFeatures calls issued by the current submission
    descCleared,        \* confirmClearForm ran since the last description submission
    descOrphans,        \* outstanding features calls started by an unmounted form
    descToasts,         \* toasts raised by onSubmit for the current submission
    descErrors          \* formState.errors: the fields the resolver rejected

storyVars == <<storyIsLoading, generatedStory, storyPending, storyOutput,
               storyReturn, clipboard, storyCalls, storyCleared, storyOrphans,
               storyReplaced>>

descVars == <<flowRevision, schemaRevision, descIsLoading, generatedDescription,
              descPending, descData, featOutput, featReturn, descCalls,
              descCleared, descOrphans, descToasts, descErrors>>

vars == <<activeTab, storyVars, descVars>>

---------------------------------------------------------------------------
(* Bounds of the explored inputs.                                          *)

\* most outstanding calls of one pipeline left behind by unmounted forms
MaxOrphans == 1

\* longest upstream story text enumerated character by character
MaxRawLen == 4
\* most tokens in an enumerated " | "-joined caption
MaxTokens == 3
\* longest upstream feature block enumerated character by character
MaxFeatLen == 3

---------------------------------------------------------------------------
(* JavaScript string primitives.                                           *)

\* the white space of the model's alphabets (String.prototype.trim strips it)
WhiteSpace == {" ", "\n", "\t", "\r", "U+00A0"}

Min(S) == CHOOSE m \in S : \A k \in S : m <= k
Max(S) == CHOOSE m \in S : \A k \in S : m >= k

\* the strings over alphabet A of length at most n
StringsUpTo(A, n) == UNION {[1..k -> A] : k \in 0..n}

\* c repeated n times
Rep(c, n) == [i \in 1..n |-> c]

\* String.prototype.trimStart
TrimStart(s) ==
    LET keep == {i \in 1..Len(s) : s[i] \notin WhiteSpace}
    IN  IF keep = {} THEN <<>> ELSE SubSeq(s, Min(keep), Len(s))

\* String.prototype.trimEnd
TrimEnd(s) ==
    LET keep == {i \in 1..Len(s) : s[i] \notin WhiteSpace}
    IN  IF keep = {} THEN <<>> ELSE SubSeq(s, 1, Max(keep))

\* String.prototype.trim
Trim(s) == TrimEnd(TrimStart(s))

\* String.prototype.startsWith / endsWith
StartsWith(s, p) == Len(s) >= Len(p) /\ SubSeq(s, 1, Len(p)) = p
EndsWith(s, p) ==
    Len(s) >= Len(p) /\ SubSeq(s, Len(s) - Len(p) + 1, Len(s)) = p

\* positions at which sep occurs in s
Occurrences(s, sep) ==
    {i \in 1..(Len(s) - Len(sep) + 1) : SubSeq(s, i, i + Len(sep) - 1) = sep}

\* String.prototype.split with a non-empty string separator
RECURSIVE Split(_, _)
Split(s, sep) ==
    LET occ == Occurrences(s, sep)
    IN  IF occ = {} THEN <<s>>
        ELSE LET i == Min(occ)
             IN  <<SubSeq(s, 1, i - 1)>>
                     \o Split(SubSeq(s, i + Len(sep), Len(s)), sep)

\* Array.prototype.join
RECURSIVE Join(_, _)
Join(parts, sep) ==
    IF parts = <<>> THEN <<>>
    ELSE IF Len(parts) = 1 THEN parts[1]
    ELSE parts[1] \o sep \o Join(Tail(parts), sep)

---------------------------------------------------------------------------
(* The caption splitter of handleCopyToClipboard.                          *)

\* the delimiter ' | '
PipeSep == <<" ", "|", " ">>

\* the character budget of the first line
LineBudget == 47

\* faulty variant: an empty first line takes any token
FitsFirstLineOrEmpty(firstLine, part) ==
    firstLine = <<>> \/ Len(firstLine \o part \o PipeSep) <= LineBudget

\* faulty variant: the budget is charged without the separator
FitsFirstLineNoSep(firstLine, part) ==
    Len(firstLine \o part) <= LineBudget

\* faulty variant: the budget must be undercut, not just met
FitsFirstLineBelow(firstLine, part) ==
    Len(firstLine \o part \o PipeSep) < LineBudget

\* (firstLine + part + ' | ').length <= 47
FitsFirstLine(firstLine, part) ==
    Len(firstLine \o part \o PipeSep) <= LineBudget

\* faulty variant: the separator is left out
AppendPartNoSep(line, part) == line \o part

\* line += (line ? ' | ' : '') + part
AppendPart(line, part) ==
    line \o (IF line # <<>> THEN PipeSep ELSE <<>>) \o part

\* the for-loop over parts: <<firstLine, secondLine>> once every part is placed
RECURSIVE PlaceParts(_, _, _, _)
PlaceParts(parts, i, firstLine, secondLine) ==
    IF i > Len(parts) THEN <<firstLine, secondLine>>
    ELSE IF FitsFirstLine(firstLine, parts[i])
         THEN PlaceParts(parts, i + 1, AppendPart(firstLine, parts[i]), secondLine)
         ELSE PlaceParts(parts, i + 1, firstLine, AppendPart(secondLine, parts[i]))

\* the two lines after the trailing-separator trimming
SplitLines(story) ==
    LET placed     == PlaceParts(Split(story, PipeSep), 1, <<>>, <<>>)
        firstTrim  == Trim(placed[1])
        secondLine == Trim(placed[2])
        firstLine  == IF EndsWith(firstTrim, <<"|">>)
                      THEN Trim(SubSeq(firstTrim, 1, Len(firstTrim) - 1))
                      ELSE firstTrim
    IN  <<firstLine, secondLine>>

\* faulty variant: the second line is not copied
TextToCopyFirstLineOnly(story) == SplitLines(story)[1]

\* textToCopy
TextToCopy(story) ==
    LET lines == SplitLines(story)
    IN  IF lines[2] # <<>> THEN lines[1] \o <<"\n">> \o lines[2] ELSE lines[1]

---------------------------------------------------------------------------
(* generateStoryTextFlow.                                                  *)

\* what a prompt call can give the flow: no output, an output without the
\* string field, an output carrying the field, or a rejected call
NullOutput    == [kind |-> "null", text |-> <<>>]
NoFieldOutput == [kind |-> "nofield", text |-> <<>>]
RejectedCall  == [kind |-> "rejected", text |-> <<>>]
TextOutput(s) == [kind |-> "text", text |-> s]

Thrown      == [ok |-> FALSE, text |-> <<>>]
Returned(s) == [ok |-> TRUE, text |-> s]

\* faulty variant: only a missing output is refused
StoryOutputUsableLax(output) == output.kind \in {"nofield", "text"}

\* !(!output?.storyText)
StoryOutputUsable(output) == output.kind = "text" /\ output.text # <<>>

\* the final check: one leading and one trailing pipe removed
StripPipes(raw) ==
    LET trimmed == Trim(raw)
        headOff == IF StartsWith(trimmed, <<"|">>)
                   THEN Trim(SubSeq(trimmed, 2, Len(trimmed)))
                   ELSE trimmed
    IN  IF EndsWith(headOff, <<"|">>)
        THEN Trim(SubSeq(headOff, 1, Len(headOff) - 1))
        ELSE headOff

generateStoryTextFlow(output) ==
    IF output.kind = "rejected" \/ ~StoryOutputUsable(output)
    THEN Thrown
    ELSE Returned(StripPipes(output.text))

---------------------------------------------------------------------------
(* The inputs explored.                                                    *)

StoryAlphabet == {"a", "|", " "}

\* token lengths around the budget: 44 is the longest token the first line takes
TokenLens == {1, 20, 30, 44, 45, 48}

\* the i-th token of a caption is made of the i-th letter
Letters == <<"a", "b", "c", "d", "e", "f">>

\* the caption whose i-th token has length lens[i]
CaptionOf(lens) == Join([i \in 1..Len(lens) |-> Rep(Letters[i], lens[i])], PipeSep)

Captions == {CaptionOf(lens) : lens \in UNION {[1..n -> TokenLens] : n \in 1..MaxTokens}}

\* the caption the story prompt gives as its first example output
ExampleCaption ==
    <<"0", "4", " ", "Q", "u", "a", "r", "t", "o", "s", " ", "|", " ", "0",
      "2", " ", "S", "u", "U+00ED", "t", "e", "s", " ", "|", " ", "0", "4",
      " ", "V", "a", "g", "a", "s", " ", "d", "e", " ", "G", "a", "r", "a",
      "g", "e", "m", " ", "|", " ", "U+00C1", "r", "e", "a", " ", "G", "o",
      "u", "r", "m", "e", "t", " ", "|", " ", "P", "i", "s", "c", "i", "n",
      "a", " ", "|", " ", "A", "q", "u", "e", "c", "i", "m", "e", "n", "t",
      "o", " ", "S", "o", "l", "a", "r">>

\* a caption whose middle token is a single blank
BlankTokenCaption ==
    Rep("a", 40) \o PipeSep \o <<" ">> \o PipeSep \o Rep("b", 5)

StoryTexts ==
    StringsUpTo(StoryAlphabet, MaxRawLen) \cup Captions
        \cup {ExampleCaption, BlankTokenCaption}

StoryOutputs ==
    {NullOutput, NoFieldOutput, RejectedCall} \cup {TextOutput(s) : s \in StoryTexts}

---------------------------------------------------------------------------
(* StoryGeneratorForm.                                                     *)

NotSettled == [settled |-> FALSE, ok |-> FALSE, text |-> <<>>]

NoCopy == [written |-> FALSE, source |-> <<>>, text |-> <<>>]

\* faulty variant: the previous output stays on display during the call
OutputAtSubmitKept(previous) == previous

\* setGeneratedStory("") / setGeneratedDescription("") ahead of the call
OutputAtSubmit(previous) == <<>>

\* faulty variant: the flag is released on the success path only
LoadingAfterSettleStuckOnFailure(failed) == failed

\* the finally block: setIsLoading(false), whether the try block threw or not
LoadingAfterSettle(failed) == FALSE

\* faulty variant: a failed call is issued once more
ReissuedCallsOnFailure(failed) == IF failed THEN 1 ELSE 0

\* the catch block reports the failure and issues no further call
ReissuedCalls(failed) == 0

\* onSubmit's test of the adapter's result: !result || !result.storyText
StoryResultUsable(result) == result.ok /\ result.text # <<>>

StoryInit ==
    /\ storyIsLoading = FALSE
    /\ generatedStory = <<>>
    /\ storyPending = FALSE
    /\ storyOutput = NullOutput
    /\ storyReturn = NotSettled
    /\ clipboard = NoCopy
    /\ storyCalls = 0
    /\ storyCleared = FALSE
    /\ storyOrphans = 0
    /\ storyReplaced = FALSE

\* onSubmit up to the await; the submit button is disabled while isLoading.
\* storyOutput, storyReturn, clipboard, storyCalls, storyCleared and
\* storyReplaced observe the current submission only, so a new submission
\* starts them afresh (storyReplaced lasts until the call settles).
StoryOnSubmit ==
    /\ activeTab = "stories"
    /\ ~storyIsLoading
    /\ storyIsLoading' = TRUE
    /\ generatedStory' = OutputAtSubmit(generatedStory)
    /\ storyPending' = TRUE
    /\ storyOutput' = NullOutput
    /\ storyReturn' = NotSettled
    /\ clipboard' = NoCopy
    /\ storyCalls' = 1
    /\ storyCleared' = FALSE
    /\ storyReplaced' = (generatedStory # <<>>)
    /\ UNCHANGED <<activeTab, storyOrphans, descVars>>

\* the call settles: the flow runs on the prompt output, then onSubmit resumes
StorySettle(output) ==
    /\ storyPending
    /\ LET result == generateStoryTextFlow(output)
           again == ReissuedCalls(~StoryResultUsable(result))
       IN  /\ storyOutput' = output
           /\ storyReturn' = [settled |-> TRUE, ok |-> result.ok, text |-> result.text]
           /\ generatedStory' = IF StoryResultUsable(result)
                                THEN result.text
                                ELSE generatedStory
           /\ storyCalls' = storyCalls + again
           /\ storyPending' = (again > 0)
           /\ storyIsLoading' = LoadingAfterSettle(~StoryResultUsable(result))
    /\ storyReplaced' = FALSE
    /\ UNCHANGED <<activeTab, clipboard, storyCleared, storyOrphans, descVars>>

handleCopyToClipboard ==
    /\ activeTab = "stories"
    /\ generatedStory # <<>>
    /\ clipboard' = [written |-> TRUE, source |-> generatedStory,
                     text |-> TextToCopy(generatedStory)]
    /\ UNCHANGED <<activeTab, storyIsLoading, generatedStory, storyPending,
                   storyOutput, storyReturn, storyCalls, storyCleared,
                   storyOrphans, storyReplaced, descVars>>

StoryConfirmClearForm ==
    /\ activeTab = "stories"
    /\ generatedStory' = <<>>
    /\ storyCleared' = TRUE
    /\ UNCHANGED <<activeTab, storyIsLoading, storyPending, storyOutput,
                   storyReturn, clipboard, storyCalls, storyOrphans,
                   storyReplaced, descVars>>

\* the tab is changed away from "stories": StoryGeneratorForm is unmounted and
\* its state is gone; a call it was awaiting stays outstanding
LeaveStoriesTab ==
    /\ activeTab = "stories"
    /\ storyOrphans + (IF storyPending THEN 1 ELSE 0) <= MaxOrphans
    /\ activeTab' = "description"
    /\ storyOrphans' = storyOrphans + (IF storyPending THEN 1 ELSE 0)
    /\ storyIsLoading' = FALSE
    /\ generatedStory' = <<>>
    /\ storyPending' = FALSE
    /\ storyOutput' = NullOutput
    /\ storyReturn' = NotSettled
    /\ clipboard' = NoCopy
    /\ storyCalls' = 0
    /\ storyCleared' = FALSE
    /\ storyReplaced' = FALSE
    /\ UNCHANGED descVars

\* a call of an unmounted form settles: its state setters reach no mounted form
StoryOrphanSettle ==
    /\ storyOrphans > 0
    /\ storyOrphans' = storyOrphans - 1
    /\ UNCHANGED <<activeTab, storyIsLoading, generatedStory, storyPending,
                   storyOutput, storyReturn, clipboard, storyCalls,
                   storyCleared, storyReplaced, descVars>>

StoryNext ==
    \/ StoryOnSubmit
    \/ \E output \in StoryOutputs : StorySettle(output)
    \/ handleCopyToClipboard
    \/ StoryConfirmClearForm

---------------------------------------------------------------------------
(* formatPropertyFeaturesFlow, in the two revisions the repository holds.  *)

\* the revision at src/ai/flows/format-property-features.ts appends ';' to the
\* whole string; the revision of unnamed/part_000 repairs the last line of the
\* trimmed string and returns it trimmed
Revisions == {"named", "part_000"}

\* !(!output || typeof output.formattedFeatures !== 'string')
FeatOutputUsable(output) == output.kind = "text"

\* format-property-features.ts, lines 87-94
RepairSemicolonNamed(formattedFeatures) ==
    IF formattedFeatures # <<>> /\ ~EndsWith(formattedFeatures, <<";">>)
    THEN formattedFeatures \o <<";">>
    ELSE formattedFeatures

\* faulty variant: the last line gets its ';' whether or not it has one
RepairSemicolonAlways(formattedFeatures) ==
    LET lines    == Split(Trim(formattedFeatures), <<"\n">>)
        lastLine == lines[Len(lines)]
    IN  IF formattedFeatures # <<>> /\ lastLine # <<>>
        THEN Trim(Join([lines EXCEPT ![Len(lines)] = lastLine \o <<";">>], <<"\n">>))
        ELSE Trim(formattedFeatures)

\* faulty variant: the string is trimmed and nothing is repaired
RepairSemicolonTrimOnly(formattedFeatures) == Trim(formattedFeatures)

\* unnamed/part_000, lines 198-210
RepairSemicolon(formattedFeatures) ==
    LET lines    == Split(Trim(formattedFeatures), <<"\n">>)
        lastLine == lines[Len(lines)]
        repaired == IF EndsWith(lastLine, <<";">>) THEN lastLine
                    ELSE lastLine \o <<";">>
    IN  IF /\ formattedFeatures # <<>>
           /\ ~EndsWith(Trim(formattedFeatures), <<";">>)
           /\ lastLine # <<>>
        THEN Trim(Join([lines EXCEPT ![Len(lines)] = repaired], <<"\n">>))
        ELSE Trim(formattedFeatures)

\* the repair step of the built revision
Repair(revision, formattedFeatures) ==
    IF revision = "named" THEN RepairSemicolonNamed(formattedFeatures)
    ELSE RepairSemicolon(formattedFeatures)

formatPropertyFeaturesFlow(revision, output) ==
    IF output.kind = "rejected" \/ ~FeatOutputUsable(output)
    THEN Thrown
    ELSE Returned(Repair(revision, output.text))

---------------------------------------------------------------------------
(* Number and currency formatting (Intl.NumberFormat, locale pt-BR).       *)

DigitChars == <<"0", "1", "2", "3", "4", "5", "6", "7", "8", "9">>
DigitSet == {DigitChars[i] : i \in 1..10}
DigitValue(c) == (CHOOSE i \in 1..10 : DigitChars[i] = c) - 1

\* the decimal digits of a natural number
RECURSIVE NatDigits(_)
NatDigits(n) ==
    IF n < 10 THEN <<DigitChars[n + 1]>>
    ELSE NatDigits(n \div 10) \o <<DigitChars[(n % 10) + 1]>>

\* the value of a run of digits (0 for the empty run)
RECURSIVE DigitsValue(_)
DigitsValue(ds) ==
    IF ds = <<>> THEN 0
    ELSE DigitsValue(SubSeq(ds, 1, Len(ds) - 1)) * 10 + DigitValue(ds[Len(ds)])

\* pt-BR grouping: a '.' before every group of three digits
RECURSIVE Group(_)
Group(ds) ==
    IF Len(ds) <= 3 THEN ds
    ELSE Group(SubSeq(ds, 1, Len(ds) - 3)) \o <<".">> \o SubSeq(ds, Len(ds) - 2, Len(ds))

\* new Intl.NumberFormat('pt-BR').format(x), x given in thousandths: grouped
\* integer part, then ',' and at most three fraction digits, trailing zeros dropped
FormatNumber(milli) ==
    LET whole == milli \div 1000
        frac  == milli % 1000
        three == <<DigitChars[(frac \div 100) + 1], DigitChars[((frac \div 10) % 10) + 1],
                   DigitChars[(frac % 10) + 1]>>
        kept  == Max({i \in 1..3 : three[i] # "0"} \cup {0})
    IN  Group(NatDigits(whole))
            \o (IF frac = 0 THEN <<>> ELSE <<",">> \o SubSeq(three, 1, kept))

\* the length of the run of digits of s that starts at position from
DigitRun(s, from) ==
    LET stops == {i \in from..Len(s) : s[i] \notin DigitSet}
    IN  IF stops = {} THEN Len(s) - from + 1 ELSE Min(stops) - from

\* parseFloat: the longest numeric prefix (sign, digits, '.', digits) of the
\* string after its leading white space; NaN when there is none.  Exponents
\* and "Infinity" are outside the model's price alphabet.
ParseFloat(str) ==
    LET s       == TrimStart(str)
        signLen == IF s # <<>> /\ s[1] \in {"+", "-"} THEN 1 ELSE 0
        intLen  == DigitRun(s, signLen + 1)
        dotAt   == signLen + intLen + 1
        hasDot  == dotAt <= Len(s) /\ s[dotAt] = "."
        fracLen == IF hasDot THEN DigitRun(s, dotAt + 1) ELSE 0
    IN  [nan  |-> intLen = 0 /\ fracLen = 0,
         neg  |-> signLen = 1 /\ s[1] = "-",
         int  |-> SubSeq(s, signLen + 1, signLen + intLen),
         frac |-> SubSeq(s, dotAt + 1, dotAt + fracLen)]

\* String.prototype.replace(/R\$\s*/g, "")
RECURSIVE RemoveCurrencyMarker(_)
RemoveCurrencyMarker(s) ==
    LET occ == Occurrences(s, <<"R", "$">>)
    IN  IF occ = {} THEN s
        ELSE LET i     == Min(occ)
                 after == SubSeq(s, i + 2, Len(s))
             IN  SubSeq(s, 1, i - 1) \o RemoveCurrencyMarker(TrimStart(after))

\* String.prototype.replace(/\./g, '')
RemoveDots(s) == SelectSeq(s, LAMBDA c : c # ".")

\* String.prototype.replace(',', '.'): the first comma only
ReplaceFirstComma(s) ==
    LET occ == {i \in 1..Len(s) : s[i] = ","}
    IN  IF occ = {} THEN s ELSE [s EXCEPT ![Min(occ)] = "."]

\* the parsed value in cents, rounded half up at the third fraction digit
Cents(parsed) ==
    LET f == parsed.frac \o <<"0", "0", "0">>
    IN  DigitsValue(parsed.int) * 100 + DigitValue(f[1]) * 10 + DigitValue(f[2])
            + (IF DigitValue(f[3]) >= 5 THEN 1 ELSE 0)

\* Intl.NumberFormat("pt-BR", {style: "currency", currency: "BRL"}).format
FormatBRL(parsed) ==
    LET cents == Cents(parsed)
    IN  (IF parsed.neg THEN <<"-">> ELSE <<>>)
            \o <<"R", "$", "U+00A0">>
            \o Group(NatDigits(cents \div 100))
            \o <<",", DigitChars[((cents \div 10) % 10) + 1], DigitChars[(cents % 10) + 1]>>

\* faulty variant: an unparsable price comes back stripped and normalised
formatCurrencyReturnsNormalised(valueStr) ==
    LET s      == ReplaceFirstComma(RemoveDots(Trim(RemoveCurrencyMarker(valueStr))))
        parsed == ParseFloat(s)
    IN  IF parsed.nan THEN s ELSE FormatBRL(parsed)

formatCurrency(valueStr) ==
    LET s      == ReplaceFirstComma(RemoveDots(Trim(RemoveCurrencyMarker(valueStr))))
        parsed == ParseFloat(s)
    IN  IF parsed.nan THEN valueStr ELSE FormatBRL(parsed)

\* String.prototype.toUpperCase on the letters of the model's alphabets
LowerCase == <<"a", "b", "c", "d", "e", "f", "g", "h", "i", "j", "k", "l", "m",
               "n", "o", "p", "q", "r", "s", "t", "u", "v", "w", "x", "y", "z",
               "U+00E1", "U+00E9", "U+00ED", "U+00F3", "U+00FA", "U+00E3", "U+00E7">>
UpperCase == <<"A", "B", "C", "D", "E", "F", "G", "H", "I", "J", "K", "L", "M",
               "N", "O", "P", "Q", "R", "S", "T", "U", "V", "W", "X", "Y", "Z",
               "U+00C1", "U+00C9", "U+00CD", "U+00D3", "U+00DA", "U+00C3", "U+00C7">>
toUpperCase(s) ==
    [i \in 1..Len(s) |->
        IF \E k \in 1..Len(LowerCase) : LowerCase[k] = s[i]
        THEN UpperCase[CHOOSE k \in 1..Len(LowerCase) : LowerCase[k] = s[i]]
        ELSE s[i]]

---------------------------------------------------------------------------
(* The description assembly of PropertyDescriptionForm.onSubmit.           *)

CodeLabel == <<"C", "U+00F3", "d", "i", "g", "o", " ", "d", "o", " ", "i", "m",
               "U+00F3", "v", "e", "l", ":", " ">>
FeaturesHeader == <<"C", "A", "R", "A", "C", "T", "E", "R", "U+00CD", "S", "T", "I",
                    "C", "A", "S", " ", "P", "R", "I", "N", "C", "I", "P", "A", "I",
                    "S", ":">>
AreaTotalLabel == <<"U+00C1", "r", "e", "a", " ", "T", "o", "t", "a", "l", ":", " ">>
AreaPrivadaLabel == <<"U+00C1", "r", "e", "a", " ", "P", "r", "i", "v", "a", "d", "a",
                      ":", " ">>
SquareMetres == <<" ", "m", "U+00B2">>
ValorLabel == <<"U+D83D", "U+DCB0", "V", "A", "L", "O", "R", ":", " ">>
ContactLine == <<"A", "g", "e", "n", "d", "e", " ", "u", "m", "a", " ", "v", "i", "s",
                 "i", "t", "a", " ", "h", "o", "j", "e", " ", "m", "e", "s", "m", "o",
                 " ", "c", "o", "m", " ", "n", "o", "s", "s", "a", " ", "e", "q", "u",
                 "i", "p", "e", ":">>
PhoneLine == <<"U+D83D", "U+DCF2", "(", "3", "1", ")", " ", "9", " ", "9", "8", "5",
               "9", " ", "0", "5", "9", "0", " ", "/", " ", "3", "0", "5", "8", "-",
               "1", "6", "0", "0">>
AddressLine == <<"A", "v", "e", "n", "i", "d", "a", " ", "A", "c", "a", "d", "U+00EA",
                 "m", "i", "c", "o", " ", "N", "i", "l", "o", " ", "F", "i", "g", "u",
                 "e", "i", "r", "e", "d", "o", ",", " ", "3", "2", "7", "3", ",", " ",
                 "S", "a", "n", "t", "o", "s", " ", "D", "u", "m", "o", "n", "t", " ",
                 "I", "I", ",", " ", "L", "a", "g", "o", "a", " ", "S", "a", "n", "t",
                 "a", "/", "M", "G">>

\* `${data.bairro.toUpperCase()} - ${data.cidade.toUpperCase()}/MG`
Location(data) ==
    toUpperCase(data.bairro) \o <<" ", "-", " ">> \o toUpperCase(data.cidade)
        \o <<"/", "M", "G">>

\* faulty variant: the two area lines change places
descriptionPartsAreasSwapped(data, formattedFeatures) ==
    <<Location(data), <<>>, CodeLabel \o data.codigo>>
        \o (IF Trim(data.descricaoAdicional) # <<>>
            THEN <<<<>>, Trim(data.descricaoAdicional)>> ELSE <<>>)
        \o <<<<>>, FeaturesHeader, TrimStart(formattedFeatures), <<>>>>
        \o <<AreaPrivadaLabel \o FormatNumber(data.areaPrivada) \o SquareMetres>>
        \o <<AreaTotalLabel \o FormatNumber(data.areaTotal) \o SquareMetres>>
        \o <<ValorLabel \o formatCurrency(data.valor), <<>>>>
        \o <<ContactLine, PhoneLine, AddressLine>>

\* faulty variant: the extra text is pushed whenever it is non-empty, untrimmed
descriptionPartsExtraUntrimmed(data, formattedFeatures) ==
    <<Location(data), <<>>, CodeLabel \o data.codigo>>
        \o (IF data.descricaoAdicional # <<>>
            THEN <<<<>>, data.descricaoAdicional>> ELSE <<>>)
        \o <<<<>>, FeaturesHeader, TrimStart(formattedFeatures), <<>>>>
        \o <<AreaTotalLabel \o FormatNumber(data.areaTotal) \o SquareMetres>>
        \o <<AreaPrivadaLabel \o FormatNumber(data.areaPrivada) \o SquareMetres>>
        \o <<ValorLabel \o formatCurrency(data.valor), <<>>>>
        \o <<ContactLine, PhoneLine, AddressLine>>

\* descriptionParts once every push is done
descriptionParts(data, formattedFeatures) ==
    <<Location(data), <<>>, CodeLabel \o data.codigo>>
        \o (IF Trim(data.descricaoAdicional) # <<>>
            THEN <<<<>>, Trim(data.descricaoAdicional)>> ELSE <<>>)
        \o <<<<>>, FeaturesHeader, TrimStart(formattedFeatures), <<>>>>
        \o <<AreaTotalLabel \o FormatNumber(data.areaTotal) \o SquareMetres>>
        \o <<AreaPrivadaLabel \o FormatNumber(data.areaPrivada) \o SquareMetres>>
        \o <<ValorLabel \o formatCurrency(data.valor), <<>>>>
        \o <<ContactLine, PhoneLine, AddressLine>>

\* descriptionParts.join("\n")
AssembleDescription(data, formattedFeatures) ==
    Join(descriptionParts(data, formattedFeatures), <<"\n">>)

---------------------------------------------------------------------------
(* The inputs of the description pipeline.                                 *)

FeatAlphabet == {"a", ";", " ", "\n"}

FeatOutputs ==
    {NullOutput, NoFieldOutput, RejectedCall}
        \cup {TextOutput(s) : s \in StringsUpTo(FeatAlphabet, MaxFeatLen)}

\* the value an area input hands to the form, in thousandths (at most three
\* decimals are typed): parseFloat(text.replace(/\./g, '').replace(',', '.')) || ''.
\* 0 stands for the blank value '' that NaN and zero are turned into; Intl
\* formats both as "0" and both revisions of the schema treat them alike.
AreaOnChange(text) ==
    LET parsed == ParseFloat(ReplaceFirstComma(RemoveDots(text)))
        f      == parsed.frac \o <<"0", "0", "0">>
        milli  == DigitsValue(parsed.int) * 1000 + DigitsValue(SubSeq(f, 1, 3))
    IN  IF parsed.nan \/ milli = 0 THEN 0
        ELSE IF parsed.neg THEN 0 - milli ELSE milli

\* form data every revision of the schema accepts: areas are positive numbers
Listings ==
    [codigo : {<<"A", "P", "0", "1", "2", "3">>},
     valor : {<<"3", "5", "0", ".", "0", "0", "0", ",", "0", "0">>,
              <<"R", "$", " ", "3", "5", "0", ".", "0", "0", "0", ",", "0", "0">>,
              <<"a", "b", "c">>,
              <<"R", "$", " ", "a", ".", "b">>},
     bairro : {<<"C", "e", "n", "t", "r", "o">>},
     cidade : {<<"L", "a", "g", "o", "a", " ", "S", "a", "n", "t", "a">>},
     areaTotal : {AreaOnChange(<<"1", "2", "0">>),
                  AreaOnChange(<<"1", ".", "2", "0", "0", ",", "5">>)},
     areaPrivada : {AreaOnChange(<<"9", "0">>)},
     descricaoAdicional : {<<>>, <<" ", " ">>, <<" ", "N", "o", "v", "o", " ">>},
     caracteristicasPrincipais : {<<"a">>}]

NoData ==
    [codigo |-> <<>>, valor |-> <<>>, bairro |-> <<>>, cidade |-> <<>>,
     areaTotal |-> 0, areaPrivada |-> 0, descricaoAdicional |-> <<>>,
     caracteristicasPrincipais |-> <<>>]

\* one listing, and what the user may have left out or mistyped in it
SampleListing ==
    [codigo |-> <<"A", "P", "0", "1", "2", "3">>,
     valor |-> <<"3", "5", "0", ".", "0", "0", "0", ",", "0", "0">>,
     bairro |-> <<"C", "e", "n", "t", "r", "o">>,
     cidade |-> <<"L", "a", "g", "o", "a", " ", "S", "a", "n", "t", "a">>,
     areaTotal |-> AreaOnChange(<<"1", "2", "0">>),
     areaPrivada |-> AreaOnChange(<<"9", "0">>),
     descricaoAdicional |-> <<>>,
     caracteristicasPrincipais |-> <<"a">>]

RequiredFields == {"codigo", "valor", "bairro", "cidade", "caracteristicasPrincipais"}

AreaFields == {"areaTotal", "areaPrivada"}

TypedAreas == {<<>>, <<"0">>, <<"-", "5">>, <<"a", "b", "c">>}

\* a price that starts with a number and goes on with text
PrefixedPrice == <<"1", "2", "a", "b", "c">>

FormAttempts ==
    {SampleListing, [SampleListing EXCEPT !.valor = PrefixedPrice]}
        \cup {[SampleListing EXCEPT ![f] = <<>>] : f \in RequiredFields}
        \cup {[SampleListing EXCEPT ![f] = AreaOnChange(t)] : f \in AreaFields, t \in TypedAreas}

SampleFeatOutputs ==
    {NullOutput, RejectedCall, TextOutput(<<>>), TextOutput(<<"a">>)}

SampleStoryOutputs ==
    {NullOutput, RejectedCall, TextOutput(<<>>), TextOutput(CaptionOf(<<1, 1>>))}

---------------------------------------------------------------------------
(* propertyFormSchema, as the zodResolver applies it.                      *)

\* schema.ts holds two revisions of propertyFormSchema
SchemaRevisions == {"lines3_22", "lines36_49"}

\* z.string().min(1)
StringAccepted(value) == Len(value) >= 1

\* the area rule: z.coerce.number().positive() in both revisions, to which
\* lines 3-22 add .or(z.literal(0)), .or(digit string) and .or(z.literal(''))
AreaAccepted(revision, area) ==
    IF revision = "lines3_22" THEN area > 0 \/ area = 0 ELSE area > 0

\* faulty variant: an empty codigo is not reported
FieldErrorsCodigoOptional(revision, values) ==
    {f \in RequiredFields \ {"codigo"} : ~StringAccepted(values[f])}
        \cup {f \in AreaFields : ~AreaAccepted(revision, values[f])}

\* the fields the resolver reports an error for
FieldErrors(revision, values) ==
    {f \in RequiredFields : ~StringAccepted(values[f])}
        \cup {f \in AreaFields : ~AreaAccepted(revision, values[f])}

---------------------------------------------------------------------------
(* PropertyDescriptionForm.                                                *)

NoToasts == [error |-> 0, success |-> 0]

\* faulty variant: an empty formattedFeatures counts as a result
FeatResultUsableLax(aiResult) == aiResult.ok

\* onSubmit's test of the adapter's result: !aiResult || !aiResult.formattedFeatures
FeatResultUsable(aiResult) == aiResult.ok /\ aiResult.text # <<>>

DescInit ==
    /\ flowRevision \in Revisions
    /\ schemaRevision \in SchemaRevisions
    /\ descIsLoading = FALSE
    /\ generatedDescription = <<>>
    /\ descPending = FALSE
    /\ descData = NoData
    /\ featOutput = NullOutput
    /\ featReturn = NotSettled
    /\ descCalls = 0
    /\ descCleared = FALSE
    /\ descOrphans = 0
    /\ descToasts = NoToasts
    /\ descErrors = {}

\* onSubmit up to the await.  descData, featOutput, featReturn, descCalls,
\* descCleared and descToasts observe the current submission only.
DescOnSubmit(data) ==
    /\ descIsLoading' = TRUE
    /\ generatedDescription' = OutputAtSubmit(generatedDescription)
    /\ descPending' = TRUE
    /\ descData' = data
    /\ featOutput' = NullOutput
    /\ featReturn' = NotSettled
    /\ descCalls' = 1
    /\ descCleared' = FALSE
    /\ descToasts' = NoToasts

\* the submit button, disabled while isLoading: form.handleSubmit(onSubmit)
\* runs the resolver on the form's values and calls onSubmit only when no
\* field is in error
DescHandleSubmit(values) ==
    /\ activeTab = "description"
    /\ ~descIsLoading
    /\ descErrors' = FieldErrors(schemaRevision, values)
    /\ IF FieldErrors(schemaRevision, values) = {}
       THEN DescOnSubmit(values)
       ELSE UNCHANGED <<descIsLoading, generatedDescription, descPending, descData,
                        featOutput, featReturn, descCalls, descCleared, descToasts>>
    /\ UNCHANGED <<activeTab, flowRevision, schemaRevision, descOrphans, storyVars>>

\* the call settles: the flow runs on the prompt output, then onSubmit resumes
DescSettle(output) ==
    /\ descPending
    /\ LET aiResult == formatPropertyFeaturesFlow(flowRevision, output)
           again    == ReissuedCalls(~FeatResultUsable(aiResult))
       IN  /\ featOutput' = output
           /\ featReturn' = [settled |-> TRUE, ok |-> aiResult.ok, text |-> aiResult.text]
           /\ generatedDescription' =
                 IF FeatResultUsable(aiResult)
                 THEN AssembleDescription(descData, aiResult.text)
                 ELSE generatedDescription
           /\ descToasts' =
                 IF FeatResultUsable(aiResult)
                 THEN [descToasts EXCEPT !.success = @ + 1]
                 ELSE [descToasts EXCEPT !.error = @ + 1]
           /\ descCalls' = descCalls + again
           /\ descPending' = (again > 0)
           /\ descIsLoading' = LoadingAfterSettle(~FeatResultUsable(aiResult))
    /\ UNCHANGED <<activeTab, flowRevision, schemaRevision, descData, descCleared,
                   descOrphans, descErrors, storyVars>>

\* form.reset also clears formState.errors
DescConfirmClearForm ==
    /\ activeTab = "description"
    /\ generatedDescription' = <<>>
    /\ descCleared' = TRUE
    /\ descErrors' = {}
    /\ UNCHANGED <<activeTab, flowRevision, schemaRevision, descIsLoading,
                   descPending, descData, featOutput, featReturn, descCalls,
                   descOrphans, descToasts, storyVars>>

\* the tab is changed away from "description": PropertyDescriptionForm is
\* unmounted and its state is gone; a call it was awaiting stays outstanding
LeaveDescriptionTab ==
    /\ activeTab = "description"
    /\ descOrphans + (IF descPending THEN 1 ELSE 0) <= MaxOrphans
    /\ activeTab' = "stories"
    /\ descOrphans' = descOrphans + (IF descPending THEN 1 ELSE 0)
    /\ descIsLoading' = FALSE
    /\ generatedDescription' = <<>>
    /\ descPending' = FALSE
    /\ descData' = NoData
    /\ featOutput' = NullOutput
    /\ featReturn' = NotSettled
    /\ descCalls' = 0
    /\ descCleared' = FALSE
    /\ descToasts' = NoToasts
    /\ descErrors' = {}
    /\ UNCHANGED <<flowRevision, schemaRevision, storyVars>>

\* a call of an unmounted form settles: its state setters reach no mounted form
DescOrphanSettle ==
    /\ descOrphans > 0
    /\ descOrphans' = descOrphans - 1
    /\ UNCHANGED <<activeTab, flowRevision, schemaRevision, descIsLoading,
                   generatedDescription, descPending, descData, featOutput,
                   featReturn, descCalls, descCleared, descToasts, descErrors,
                   storyVars>>

DescNext ==
    \/ \E values \in Listings : DescHandleSubmit(values)
    \/ \E output \in FeatOutputs : DescSettle(output)
    \/ DescConfirmClearForm

\* both forms, the tabs between them, and inputs that include rejected ones
Next ==
    \/ StoryOnSubmit
    \/ \E output \in SampleStoryOutputs : StorySettle(output)
    \/ handleCopyToClipboard
    \/ StoryConfirmClearForm
    \/ LeaveStoriesTab
    \/ StoryOrphanSettle
    \/ \E values \in FormAttempts : DescHandleSubmit(values)
    \/ \E output \in SampleFeatOutputs : DescSettle(output)
    \/ DescConfirmClearForm
    \/ LeaveDescriptionTab
    \/ DescOrphanSettle

---------------------------------------------------------------------------
(* The specifications.  <Tabs defaultValue="description"> mounts the        *)
(* description form first; SpecDesc stays on that tab and SpecStory starts  *)
(* once the stories tab has been selected, each with the full text inputs   *)
(* of its pipeline.  Spec lets the user move between the tabs.              *)

Init == activeTab = "description" /\ StoryInit /\ DescInit

\* the revisions bear on the description form only, which SpecStory never mounts
StoriesTabInit ==
    /\ activeTab = "stories"
    /\ StoryInit
    /\ DescInit
    /\ flowRevision = "named"
    /\ schemaRevision = "lines3_22"

Spec == Init /\ [][Next]_vars

SpecStory == StoriesTabInit /\ [][StoryNext]_vars

SpecDesc == Init /\ [][DescNext]_vars

---------------------------------------------------------------------------
(* Reading the clipboard text back.                                        *)

\* the caption limit the story prompt asks of the upstream service
CaptionLimit == 90

OutLines(text) == Split(text, <<"\n">>)
FirstOutLine(text) == OutLines(text)[1]
SecondOutLine(text) == IF Len(OutLines(text)) >= 2 THEN OutLines(text)[2] ELSE <<>>

\* the tokens of one output line; an empty line holds none
LineTokens(line) == IF line = <<>> THEN <<>> ELSE Split(line, PipeSep)

OutTokens(text) == LineTokens(FirstOutLine(text)) \o LineTokens(SecondOutLine(text))

\* the caption's tokens, and whether each of them is non-empty text free of
\* pipes and of leading or trailing white space
SourceTokens == Split(clipboard.source, PipeSep)
PlainTokens ==
    LET toks == SourceTokens
    IN  \A i \in 1..Len(toks) :
            /\ toks[i] # <<>>
            /\ Trim(toks[i]) = toks[i]
            /\ \A k \in 1..Len(toks[i]) : toks[i][k] # "|"

---------------------------------------------------------------------------
(* Claims about the caption splitter.                                      *)

\* C1: for a copied caption made of non-empty tokens joined by " | " (here
\* even tokens free of pipes and of surrounding white space), the tokens of
\* the first output line followed by those of the second are exactly the
\* caption's tokens, in the caption's order.
C1_OrderAndCoverage ==
    (clipboard.written /\ PlainTokens)
        => OutTokens(clipboard.text) = SourceTokens

\* C2: when the copied caption holds a single token longer than 47
\* characters, that token stands whole on the first output line.
C2_OversizeOnFirstLine ==
    LET big == {i \in 1..Len(SourceTokens) : Len(SourceTokens[i]) > LineBudget}
    IN  (clipboard.written /\ Cardinality(big) = 1)
            => \A i \in big :
                 \E j \in 1..Len(LineTokens(FirstOutLine(clipboard.text))) :
                    LineTokens(FirstOutLine(clipboard.text))[j] = SourceTokens[i]

\* C3: once every token of a copied caption is placed, the first output
\* line is at most 47 characters long.
C3_FirstLineBudget ==
    clipboard.written => Len(FirstOutLine(clipboard.text)) <= LineBudget

\* C3 witness: a caption longer than the budget was copied, some tokens
\* were taken by the first line and some were refused.
C3_Witness ==
    /\ clipboard.written
    /\ Len(clipboard.source) > LineBudget
    /\ FirstOutLine(clipboard.text) # <<>>
    /\ SecondOutLine(clipboard.text) # <<>>

\* C4 as claimed: for a copied caption of at most 90 characters, each of
\* the two output lines is at most 47 characters long.
C4_BothLinesBudget ==
    (clipboard.written /\ Len(clipboard.source) <= CaptionLimit)
        => /\ Len(FirstOutLine(clipboard.text)) <= LineBudget
           /\ Len(SecondOutLine(clipboard.text)) <= LineBudget

\* C4 amended: for a copied caption of at most 90 characters, the first
\* output line is at most 47 characters long and the second line, which
\* takes every token the first refused, is at most 90 characters long.
C4_FirstLineBudgetSecondWithinCaption ==
    (clipboard.written /\ Len(clipboard.source) <= CaptionLimit)
        => /\ Len(FirstOutLine(clipboard.text)) <= LineBudget
           /\ Len(SecondOutLine(clipboard.text)) <= CaptionLimit

\* C4 witness: a caption of at most 90 characters was copied and its second
\* output line is longer than 47 characters.
C4_Witness ==
    /\ clipboard.written
    /\ Len(clipboard.source) <= CaptionLimit
    /\ Len(SecondOutLine(clipboard.text)) > LineBudget

---------------------------------------------------------------------------
(* Claims about generateStoryTextFlow.                                     *)

\* C5: the storyText the flow returns has no leading or trailing pipe, no
\* leading or trailing white space, and stripping it again changes nothing.
C5_PipeTrim ==
    (storyReturn.settled /\ storyReturn.ok)
        => /\ ~StartsWith(storyReturn.text, <<"|">>)
           /\ ~EndsWith(storyReturn.text, <<"|">>)
           /\ Trim(storyReturn.text) = storyReturn.text
           /\ StripPipes(storyReturn.text) = storyReturn.text

\* C9: the flow throws whenever the prompt output is missing, has no
\* storyText field, or has an empty storyText.
C9_StoryFlowThrows ==
    (/\ storyReturn.settled
     /\ \/ storyOutput.kind \in {"null", "nofield"}
        \/ storyOutput.kind = "text" /\ storyOutput.text = <<>>)
        => ~storyReturn.ok /\ generatedStory = <<>>

\* C9 witness: a call settled on an output whose storyText is the empty
\* string, and the flow threw.
C9_Witness ==
    /\ storyReturn.settled
    /\ storyOutput = TextOutput(<<>>)
    /\ ~storyReturn.ok

---------------------------------------------------------------------------
(* Claims about formatPropertyFeaturesFlow.                                *)

Lines(s) == Split(s, <<"\n">>)

\* the last line of s that holds a character, and the last that holds one
\* other than white space
HasNonEmptyLine(s) == \E i \in 1..Len(Lines(s)) : Lines(s)[i] # <<>>
LastNonEmptyLine(s) ==
    Lines(s)[Max({i \in 1..Len(Lines(s)) : Lines(s)[i] # <<>>})]
HasNonBlankLine(s) == \E i \in 1..Len(Lines(s)) : Trim(Lines(s)[i]) # <<>>
LastNonBlankLine(s) ==
    Lines(s)[Max({i \in 1..Len(Lines(s)) : Trim(Lines(s)[i]) # <<>>})]

EndsWithOneSemicolon(line) ==
    EndsWith(line, <<";">>) /\ ~EndsWith(line, <<";", ";">>)

\* the block lacks the semicolon: its last non-blank line, trailing white
\* space disregarded, does not end with ';'
LacksSemicolon(block) ==
    HasNonBlankLine(block) /\ ~EndsWith(TrimEnd(LastNonBlankLine(block)), <<";">>)

\* the repair gave a last non-empty line that ends with exactly one ';'
RepairedLastLine(result) ==
    HasNonEmptyLine(result) /\ EndsWithOneSemicolon(LastNonEmptyLine(result))

\* C6 as claimed: a block whose last non-empty line already ends with ';' is
\* returned byte-identical; a block whose last non-empty line lacks it comes
\* back with its last non-empty line ending with exactly one ';'; repairing
\* the result again changes nothing.
C6_RepairNoOpIdempotent ==
    (featReturn.settled /\ featReturn.ok)
        => /\ (HasNonEmptyLine(featOutput.text)
                 /\ EndsWith(LastNonEmptyLine(featOutput.text), <<";">>))
                  => featReturn.text = featOutput.text
           /\ LacksSemicolon(featOutput.text) => RepairedLastLine(featReturn.text)
           /\ Repair(flowRevision, featReturn.text) = featReturn.text

\* C6 amended: a block without leading or trailing white space that ends
\* with ';' is returned byte-identical; a block whose last non-blank line,
\* trailing white space disregarded, lacks the ';' comes back with its last
\* non-empty line ending with exactly one ';'; repairing the result again
\* changes nothing.
C6_RepairTrimmedNoOpIdempotent ==
    (featReturn.settled /\ featReturn.ok)
        => /\ (Trim(featOutput.text) = featOutput.text
                 /\ EndsWith(featOutput.text, <<";">>))
                  => featReturn.text = featOutput.text
           /\ LacksSemicolon(featOutput.text) => RepairedLastLine(featReturn.text)
           /\ Repair(flowRevision, featReturn.text) = featReturn.text

\* C6 witness: the flow repaired a block of several lines whose last line
\* lacked the semicolon.
C6_Witness ==
    /\ featReturn.settled /\ featReturn.ok
    /\ Len(Lines(Trim(featOutput.text))) >= 2
    /\ LacksSemicolon(featOutput.text)
    /\ featReturn.text # featOutput.text

\* C7: whenever the flow returns a non-empty formattedFeatures, the last
\* non-empty line of it ends with a semicolon.
C7_SemicolonPostcondition ==
    (featReturn.settled /\ featReturn.ok /\ featReturn.text # <<>>)
        => /\ HasNonEmptyLine(featReturn.text)
           /\ EndsWith(LastNonEmptyLine(featReturn.text), <<";">>)

\* C7 witness: the upstream text omitted the closing semicolon and the flow
\* returned a non-empty formattedFeatures.
C7_Witness ==
    /\ featReturn.settled /\ featReturn.ok /\ featReturn.text # <<>>
    /\ featOutput.kind = "text"
    /\ ~EndsWith(Trim(featOutput.text), <<";">>)

\* C8: the flow throws whenever the prompt output is missing, has no string
\* formattedFeatures field, or has an empty formattedFeatures.
C8_FeatureFlowThrows ==
    (/\ featReturn.settled
     /\ \/ featOutput.kind \in {"null", "nofield"}
        \/ featOutput.kind = "text" /\ featOutput.text = <<>>)
        => ~featReturn.ok

---------------------------------------------------------------------------
(* Claims about the description assembly.                                  *)

NL == <<"\n">>

\* C10: for a listing without extra text the displayed description is, line
\* by line and joined by single newlines with none at the end: the upper-cased
\* location, blank, the code line, blank, the features header, the feature
\* block with its leading white space stripped, blank, the two area lines,
\* the price line, blank, and the three contact lines ending with the address.
C10_AssemblyOrder ==
    (generatedDescription # <<>> /\ descData.descricaoAdicional = <<>>)
        => generatedDescription =
              toUpperCase(descData.bairro) \o <<" ", "-", " ">>
                  \o toUpperCase(descData.cidade) \o <<"/", "M", "G">> \o NL
              \o NL
              \o CodeLabel \o descData.codigo \o NL
              \o NL
              \o FeaturesHeader \o NL
              \o TrimStart(featReturn.text) \o NL
              \o NL
              \o AreaTotalLabel \o FormatNumber(descData.areaTotal) \o SquareMetres \o NL
              \o AreaPrivadaLabel \o FormatNumber(descData.areaPrivada) \o SquareMetres \o NL
              \o ValorLabel \o formatCurrency(descData.valor) \o NL
              \o NL
              \o ContactLine \o NL
              \o PhoneLine \o NL
              \o AddressLine

\* C10 witness: a description was assembled for a listing without extra text
\* from a feature block of several lines that began with white space.
C10_Witness ==
    /\ generatedDescription # <<>>
    /\ descData.descricaoAdicional = <<>>
    /\ TrimStart(featReturn.text) # featReturn.text
    /\ Len(Lines(featReturn.text)) >= 2

\* the description assembled for the same listing with its extra text left out
WithoutExtra ==
    AssembleDescription([descData EXCEPT !.descricaoAdicional = <<>>], featReturn.text)

\* the description up to the end of the code line
CodeLineEnd ==
    toUpperCase(descData.bairro) \o <<" ", "-", " ">>
        \o toUpperCase(descData.cidade) \o <<"/", "M", "G">> \o NL
        \o NL
        \o CodeLabel \o descData.codigo

\* C11: a displayed description holds the extra text exactly when the extra
\* text is non-blank after trimming: then it is the description of the same
\* listing without extra text, with one blank line and the trimmed extra text
\* inserted right after the code line; when the extra text is absent or blank
\* the description is identical to the one without extra text.
C11_ExtraText ==
    generatedDescription # <<>>
        => IF Trim(descData.descricaoAdicional) # <<>>
           THEN /\ StartsWith(WithoutExtra, CodeLineEnd \o NL \o NL \o FeaturesHeader)
                /\ generatedDescription =
                      CodeLineEnd \o NL \o NL \o Trim(descData.descricaoAdicional)
                          \o SubSeq(WithoutExtra, Len(CodeLineEnd) + 1, Len(WithoutExtra))
           ELSE generatedDescription = WithoutExtra

\* C11 witness: a description is displayed for a listing whose extra text is
\* non-blank and typed with surrounding white space.
C11_Witness ==
    /\ generatedDescription # <<>>
    /\ Trim(descData.descricaoAdicional) # <<>>
    /\ Trim(descData.descricaoAdicional) # descData.descricaoAdicional

---------------------------------------------------------------------------
(* Claims about the price line.                                            *)

\* what the displayed description shows after the price label
PriceShown ==
    LET ls == Lines(generatedDescription)
        at == CHOOSE i \in 1..Len(ls) : StartsWith(ls[i], ValorLabel)
    IN  SubSeq(ls[at], Len(ValorLabel) + 1, Len(ls[at]))

Price350 == <<"3", "5", "0", ".", "0", "0", "0", ",", "0", "0">>

\* prices that hold no number once "R$", the dots and the comma are dealt with
UnparsablePrices == {<<"a", "b", "c">>, <<"R", "$", " ", "a", ".", "b">>}

\* C12: the price "350.000,00", bare or prefixed by "R$" and white space, is
\* displayed as the BRL amount 350000.00, that is "R$", a no-break space and
\* "350.000,00"; a price that holds no number ("abc", "R$ a.b") is displayed
\* exactly as it was entered.
C12_CurrencyParseAndFallback ==
    generatedDescription # <<>>
        => /\ descData.valor \in {Price350, <<"R", "$", " ">> \o Price350}
                => PriceShown = <<"R", "$", "U+00A0">> \o Price350
           /\ descData.valor \in UnparsablePrices => PriceShown = descData.valor

\* C12 witness: a description is displayed for the price "R$ 350.000,00".
C12_Witness ==
    /\ generatedDescription # <<>>
    /\ descData.valor = <<"R", "$", " ">> \o Price350
    /\ PriceShown = <<"R", "$", "U+00A0">> \o Price350

---------------------------------------------------------------------------
(* Claims about submissions, requests and notifications.                   *)

\* the features call of the current submission raised or returned an empty
\* formattedFeatures
FeatCallFailed == featReturn.settled /\ (~featReturn.ok \/ featReturn.text = <<>>)

\* C13: once the features call of a submission has raised or has returned an
\* empty formattedFeatures, and until the next submission, the displayed
\* description is empty, exactly one error notification and no success
\* notification was raised for the submission, and the form is not busy.
C13_UpstreamEmptyError ==
    FeatCallFailed
        => /\ generatedDescription = <<>>
           /\ descToasts = [error |-> 1, success |-> 0]
           /\ ~descIsLoading

\* C13 witness: the call of the current submission returned an empty
\* formattedFeatures without raising.
C13_Witness ==
    /\ featReturn.settled
    /\ featReturn.ok
    /\ featReturn.text = <<>>
    /\ descToasts.error = 1

\* the calls of each pipeline that have not settled yet
StoryOutstanding == storyOrphans + (IF storyPending THEN 1 ELSE 0)
DescOutstanding == descOrphans + (IF descPending THEN 1 ELSE 0)

\* C14: each pipeline has at most one outstanding call, and while a pipeline
\* has an outstanding call the busy flag of its form on screen is true (so
\* that its submit button, enabled only while the flag is false, cannot start
\* another).
C14_SingleOutstandingRequest ==
    /\ StoryOutstanding <= 1
    /\ DescOutstanding <= 1
    /\ (activeTab = "stories" /\ StoryOutstanding > 0) => storyIsLoading
    /\ (activeTab = "description" /\ DescOutstanding > 0) => descIsLoading

\* C15: from a confirmed clear of a form until the next submission of that
\* form, the form's generated output is empty, whenever the response of an
\* outstanding call arrives.
C15_ClearDiscardsOutput ==
    /\ storyCleared => generatedStory = <<>>
    /\ descCleared => generatedDescription = <<>>

\* C16: a features call is issued, and a description displayed, only for form
\* data whose codigo, valor, bairro, cidade and caracteristicasPrincipais are
\* all non-empty; a submit attempt that is rejected for one of these fields
\* issues no call and leaves the displayed description and the busy flag as
\* they were.
C16_RequiredFieldValidation ==
    /\ [](descPending \/ generatedDescription # <<>>
            => \A f \in RequiredFields : descData[f] # <<>>)
    /\ [][(descErrors' # descErrors /\ descErrors' \cap RequiredFields # {})
            => /\ descPending' = descPending
               /\ descCalls' = descCalls
               /\ descOrphans' = descOrphans
               /\ descIsLoading' = descIsLoading
               /\ generatedDescription' = generatedDescription]_vars

\* C16 witness: a submit attempt with an empty required field was rejected
\* while a description was on display.
C16_Witness ==
    /\ descErrors \cap RequiredFields # {}
    /\ generatedDescription # <<>>
    /\ ~descPending

\* C17: whenever a features call is outstanding or a description is on
\* display, the submitted areaTotal and areaPrivada are positive numbers (an
\* area entered as nothing, zero, a negative number or text never gets that
\* far).
C17_AreaValidation ==
    (descPending \/ generatedDescription # <<>>)
        => descData.areaTotal > 0 /\ descData.areaPrivada > 0

\* C18: from its start until the next submission, a submission has issued
\* exactly one call; once that call has settled, whatever its outcome, no
\* call of the form is outstanding.
C18_NoAutomaticRetry ==
    /\ (storyPending \/ storyReturn.settled) => storyCalls = 1
    /\ (descPending \/ featReturn.settled) => descCalls = 1
    /\ storyReturn.settled => ~storyPending
    /\ featReturn.settled => ~descPending

\* C18 witness: the features call of the current submission failed and has
\* settled, with one call issued and none outstanding.
C18_Witness ==
    /\ FeatCallFailed
    /\ descCalls = 1
    /\ ~descPending

---------------------------------------------------------------------------
(* Claims about the splitter's placement rule.                             *)

ExampleFirstLine ==
    <<"0", "4", " ", "Q", "u", "a", "r", "t", "o", "s", " ", "|", " ", "0",
      "2", " ", "S", "u", "U+00ED", "t", "e", "s", " ", "|", " ", "0", "4",
      " ", "V", "a", "g", "a", "s", " ", "d", "e", " ", "G", "a", "r", "a",
      "g", "e", "m">>

ExampleSecondLine ==
    <<"U+00C1", "r", "e", "a", " ", "G", "o", "u", "r", "m", "e", "t", " ",
      "|", " ", "P", "i", "s", "c", "i", "n", "a", " ", "|", " ", "A", "q",
      "u", "e", "c", "i", "m", "e", "n", "t", "o", " ", "S", "o", "l", "a",
      "r">>

\* C19: copying the caption "04 Quartos | 02 Suítes | 04 Vagas de Garagem |
\* Área Gourmet | Piscina | Aquecimento Solar" writes two lines, "04 Quartos |
\* 02 Suítes | 04 Vagas de Garagem" and "Área Gourmet | Piscina | Aquecimento
\* Solar", each at most 47 characters long, whose tokens read in the
\* caption's order.
C19_WorkedExample ==
    (clipboard.written /\ clipboard.source = ExampleCaption)
        => /\ clipboard.text = ExampleFirstLine \o NL \o ExampleSecondLine
           /\ Len(ExampleFirstLine) <= 47
           /\ Len(ExampleSecondLine) <= 47
           /\ OutTokens(clipboard.text) = SourceTokens

\* C19 witness: the example caption was displayed and copied.
C19_Witness ==
    /\ clipboard.written
    /\ clipboard.source = ExampleCaption
    /\ SecondOutLine(clipboard.text) = ExampleSecondLine

\* the tokens at the positions F of toks, in their order
RECURSIVE TokensAt(_, _)
TokensAt(toks, F) ==
    IF F = {} THEN <<>>
    ELSE TokensAt(toks, F \ {Max(F)}) \o <<toks[Max(F)]>>

\* F holds exactly the positions whose token, when its turn comes, fits: the
\* length of the first line built from the earlier positions of F, plus the
\* token's length, plus 3, is at most 47
GreedyFirstLine(toks, F) ==
    \A i \in 1..Len(toks) :
        i \in F <=> Len(Join(TokensAt(toks, {j \in F : j < i}), PipeSep))
                        + Len(toks[i]) + 3 <= 47

\* C20: for a copied caption whose tokens are non-empty text free of pipes
\* and of surrounding white space, the first output line is the tokens that
\* fit by the rule above, joined by " | ", and the second line, present when
\* a token was refused, is the other tokens joined by " | "; whether a token
\* is taken depends on the first line built so far and on nothing else.
C20_GreedyPlacement ==
    (clipboard.written /\ PlainTokens)
        => \E F \in SUBSET (1..Len(SourceTokens)) :
              LET first  == Join(TokensAt(SourceTokens, F), PipeSep)
                  second == Join(TokensAt(SourceTokens, (1..Len(SourceTokens)) \ F), PipeSep)
              IN  /\ GreedyFirstLine(SourceTokens, F)
                  /\ clipboard.text = IF second # <<>> THEN first \o NL \o second
                                      ELSE first

\* C20 witness: a caption of three plain tokens was copied of which the
\* second was refused by the first line and the third was still taken by it.
C20_Witness ==
    /\ clipboard.written
    /\ PlainTokens
    /\ Len(SourceTokens) = 3
    /\ OutTokens(clipboard.text) = <<SourceTokens[1], SourceTokens[3], SourceTokens[2]>>
    /\ SourceTokens[2] # SourceTokens[3]

---------------------------------------------------------------------------
(* Claims about single tokens and token counts.                            *)

\* C21: copying a caption that is one token of at most 47 characters (here
\* even a token free of pipes), with no " | " in it and no surrounding white
\* space, writes the caption itself: one line, nothing added.
C21_SingleTokenUnchanged ==
    (/\ clipboard.written
     /\ Len(SourceTokens) = 1
     /\ Len(clipboard.source) <= 47
     /\ PlainTokens)
        => clipboard.text = clipboard.source

\* the number of tokens on the two output lines
OutTokenCount ==
    Len(LineTokens(FirstOutLine(clipboard.text)))
        + Len(LineTokens(SecondOutLine(clipboard.text)))

\* C22 as claimed: for a copied caption made of non-empty tokens (here even
\* one that has no pipe or white space to strip at either end), the two
\* output lines hold as many tokens as the caption.
C22_TokenConservation ==
    (/\ clipboard.written
     /\ \A i \in 1..Len(SourceTokens) : SourceTokens[i] # <<>>
     /\ StripPipes(clipboard.source) = clipboard.source)
        => OutTokenCount = Len(SourceTokens)

\* C22: for a copied caption whose tokens are non-empty, free of pipes and
\* of surrounding white space, the two output lines hold as many tokens as
\* the caption, and every token is on one of them as often as in the caption.
C22_PlainTokenConservation ==
    (clipboard.written /\ PlainTokens)
        => LET out == OutTokens(clipboard.text)
               src == SourceTokens
           IN  /\ OutTokenCount = Len(src)
               /\ \A i \in 1..Len(src) :
                     Cardinality({j \in 1..Len(out) : out[j] = src[i]})
                         = Cardinality({j \in 1..Len(src) : src[j] = src[i]})

\* C22 witness: a caption of three plain tokens was copied and both output
\* lines hold tokens.
C22_Witness ==
    /\ clipboard.written
    /\ PlainTokens
    /\ Len(SourceTokens) = 3
    /\ FirstOutLine(clipboard.text) # <<>>
    /\ SecondOutLine(clipboard.text) # <<>>

---------------------------------------------------------------------------
(* Claims about the busy flag.                                             *)

\* C23: in each pipeline the busy flag is true only while the call of the
\* current submission has not settled: once the call has settled, with a
\* result, with an empty result or by rejecting, the flag is false (so the
\* submit button is enabled again) and no call of the form is outstanding.
C23_BusyFlagReleased ==
    /\ storyIsLoading => storyPending /\ ~storyReturn.settled
    /\ storyReturn.settled => ~storyIsLoading
    /\ descIsLoading => descPending /\ ~featReturn.settled
    /\ featReturn.settled => ~descIsLoading

\* C23 witness: the features call of the current submission was rejected,
\* it has settled and the busy flag is false.
C23_Witness ==
    /\ featReturn.settled
    /\ featOutput.kind = "rejected"
    /\ ~descIsLoading
    /\ activeTab = "description"

\* C24: whenever the busy flag of a form is true, the form's generated
\* output is empty.
C24_NoStaleOutputWhileLoading ==
    /\ storyIsLoading => generatedStory = <<>>
    /\ descIsLoading => generatedDescription = <<>>

\* C24 witness: a story was on display when the current submission started,
\* the call is outstanding and the display is empty.
C24_Witness ==
    /\ storyIsLoading
    /\ storyReplaced
    /\ generatedStory = <<>>

---------------------------------------------------------------------------
(* Claims about what the adapters and the formatter return.                *)

\* C25: whenever generateStoryTextFlow returns instead of throwing, the
\* storyText it returns is non-empty.
C25_StorySuccessImpliesText ==
    (storyReturn.settled /\ storyReturn.ok) => storyReturn.text # <<>>

\* the price as formatCurrency hands it to parseFloat
NormalisedPrice(valueStr) ==
    ReplaceFirstComma(RemoveDots(Trim(RemoveCurrencyMarker(valueStr))))

\* s is a decimal number from its first character to its last: an optional
\* sign, then digits with at most one '.' among them
IsDecimalNumber(s) ==
    LET body == IF s # <<>> /\ s[1] \in {"+", "-"} THEN Tail(s) ELSE s
    IN  /\ \E i \in 1..Len(body) : body[i] \in DigitSet
        /\ \A i \in 1..Len(body) : body[i] \in DigitSet \cup {"."}
        /\ Cardinality({i \in 1..Len(body) : body[i] = "."}) <= 1

\* C26: a price that, once "R$", the surrounding white space and the dots
\* are removed and the comma is turned into '.', is not a decimal number
\* from end to end is displayed exactly as it was entered, never as the
\* currency value of a numeric prefix.
C26_GarbagePricePassThrough ==
    (generatedDescription # <<>> /\ ~IsDecimalNumber(NormalisedPrice(descData.valor)))
        => PriceShown = descData.valor

=============================================================================
